---- MODULE Spec2Model ----
(***************************************************************************)
(* The PBX telephone exchange server: the TU state machine (tu.c), the     *)
(* extension registry (pbx.c) and the client service thread (server.c).    *)
(*                                                                         *)
(* One client service thread runs per connection; the thread and the TU    *)
(* it creates are both named by a number in TUs.  Every blocking mutex     *)
(* acquisition is a step of its own, and so is every access to a field     *)
(* that another thread can touch without holding the same lock (the        *)
(* unlocked ref_count++ of tu_ref, the unlocked read of tu->peer).         *)
(*                                                                         *)
(* Environment: malloc succeeds; write(2) on a client socket succeeds       *)
(* unless pbx_shutdown has shut the socket down, after which read(2)       *)
(* returns 0; the clients send MaxCmds command lines between them and     *)
(* disconnect at any time.                                                 *)
(***************************************************************************)
EXTENDS Integers, Sequences, FiniteSets, TLC

\* ------------------------------------------------------------- bounds
NumTU == 2          \* client connections that are tracked
MaxCmds == 4        \* command lines the clients send between them

\* ---------------------------------------------------- program constants
PBX_MAX_EXTENSIONS == 1024   \* pbx.h (not in the sources): size of the registry
BufSize == 15                \* char buffer[15] of the "ON HOOK"/"CONNECTED" lines
OnHookLen == 8               \* strlen("ON HOOK ")
ConnectedLen == 10           \* strlen("CONNECTED ")


NULL == 0
TUs == 1 .. NumTU
NoThread == 0
Main == NumTU + 1            \* the thread that runs main()
Threads == TUs \cup {Main}

\* The descriptor accept() returned for the connection of TU i.  The server
\* holds many connections; the tracked ones are those on descriptors 4, 100,
\* 101, ...  server.c registers every TU at the extension equal to its fd.
ClientFd(i) == IF i = 1 THEN 4 ELSE 98 + i

\* An extension in range at which nobody is registered: a descriptor that
\* belongs to no connection.
UnregisteredExt == ClientFd(2) - 1

\* TUs are malloc'ed objects; safe_mutex_lock orders them by address.
Addr(i) == i

\* Extensions a client can dial: every tracked one, one that is in range and
\* empty, and the first one out of range.
DialExts == {ClientFd(i) : i \in TUs} \cup {UnregisteredExt, PBX_MAX_EXTENSIONS}

\* Registry slots that are ever written or read.
Slots == {e \in DialExts : e >= 0 /\ e < PBX_MAX_EXTENSIONS}

ChatTexts == {"hi"}

\* A command line as server.c parses it: the keyword, the extension of a
\* dial, the text of a chat.  "EOF" stands for the end of the connection.
Cmd(op, n, msg) == [op |-> op, n |-> n, msg |-> msg]
NoCmd == Cmd("none", 0, "")
EOFCmd == Cmd("EOF", 0, "")
Commands ==
    {Cmd("pickup", 0, ""), Cmd("hangup", 0, "")}
        \cup {Cmd("dial", e, "") : e \in DialExts}
        \cup {Cmd("chat", 0, m) : m \in ChatTexts}

VARIABLES
    fd, ext, ref_count, state, peer,   \* struct tu, one per TU
    mutex,                             \* tu->mutex: the thread holding it
    freed,                             \* free(tu) has run
    closed,                            \* close() calls on each connection's descriptor
    extensions, active_tus,            \* struct pbx
    lock,                              \* pbx->lock: the thread holding it
    woken,                             \* the waiter on shutdown_cond was woken
    pbx_freed,                         \* free(pbx) has run
    shut,                              \* descriptors shut down by pbx_shutdown
    pc,                                \* where each thread stands
    cmd,                               \* the command line being served
    ncmd,                              \* command lines read so far
    target,                            \* target_tu of pbx_dial
    arg,                               \* tu2 as passed to safe_mutex_lock
    reg,                               \* ref_count as loaded by an update in progress
    idx,                               \* the loop index i of pbx_shutdown
    sent,                              \* writes of the current operation: <<fd, line>>
    heard,                             \* per client: what it has been sent so far
    sig                                \* what ended the process, or "none"

tuVars == <<fd, ext, ref_count, state, peer, mutex, freed, closed>>
pbxVars == <<extensions, active_tus, lock, woken, pbx_freed, shut, idx>>
vars == <<fd, ext, ref_count, state, peer, mutex, freed, closed, extensions,
          active_tus,
          lock, woken, pbx_freed, shut, pc, cmd, ncmd, target, arg, reg, idx,
          sent, heard, sig>>

\* ------------------------------------------------------------ lines
RECURSIVE NumLen(_)
NumLen(n) == IF n < 0 THEN 1 + NumLen(0 - n)
             ELSE IF n < 10 THEN 1 ELSE 1 + NumLen(n \div 10)

RECURSIVE Pow10(_)
Pow10(k) == IF k = 0 THEN 1 ELSE 10 * Pow10(k - 1)

\* snprintf(buffer, size, "<text>%d\r\n", n): at most size-1 characters are
\* stored; what does not fit is cut off the end (first the "\n", then the
\* "\r", then the low digits).
Snprintf(size, text, textLen, n) ==
    LET room == size - 1 - textLen
        d == NumLen(n)
        kept == IF d <= room THEN d ELSE room
        left == room - kept
    IN  [text |-> text,
         num |-> <<n \div Pow10(d - kept)>>,
         msg |-> "",
         eol |-> IF left >= 2 THEN "CRLF" ELSE IF left = 1 THEN "CR" ELSE "none"]

\* A string literal that ends in "\r\n".
Line(text) == [text |-> text, num |-> <<>>, msg |-> "", eol |-> "CRLF"]

\* (an ON HOOK line that leaves the extension out)
OnHookLine_bare(n) == Line("ON HOOK")
\* snprintf(buffer, 15, "ON HOOK %d\r\n", n).
OnHookLine(n) == Snprintf(BufSize, "ON HOOK", OnHookLen, n)
ConnectedLine(n) == Snprintf(BufSize, "CONNECTED", ConnectedLen, n)
\* snprintf(message, message_length, "CHAT %s\r\n", msg) into a buffer of the
\* exact length.
ChatLine(msg) == [text |-> "CHAT", num |-> <<>>, msg |-> msg, eol |-> "CRLF"]

\* notify_client(fd, message): nothing is written to a negative descriptor.
notify_client(f, message) == IF f < 0 THEN <<>> ELSE << <<f, message>> >>

\* state_messages[] of notify_client_of_tu_state.
state_messages(s) ==
    CASE s = "TU_ON_HOOK" -> "ON_HOOK"
      [] s = "TU_RINGING" -> "RINGING"
      [] s = "TU_DIAL_TONE" -> "DIAL_TONE"
      [] s = "TU_RING_BACK" -> "RING_BACK"
      [] s = "TU_BUSY_SIGNAL" -> "BUSY_SIGNAL"
      [] s = "TU_CONNECTED" -> "CONNECTED"
      [] s = "TU_ERROR" -> "ERROR"

\* notify_client_of_tu_state(tu), for a TU whose peer (if it is CONNECTED) is p.
notify_client_of_tu_state(i) ==
    CASE state[i] = "TU_ON_HOOK" ->
            notify_client(fd[i], Snprintf(64, "ON HOOK", OnHookLen, fd[i]))
      [] state[i] = "TU_CONNECTED" ->
            notify_client(fd[i], Snprintf(64, "CONNECTED", ConnectedLen, ext[peer[i]]))
      [] OTHER -> notify_client(fd[i], Line(state_messages(state[i])))

\* ------------------------------------------------------------- types
States == {"TU_ON_HOOK", "TU_RINGING", "TU_DIAL_TONE", "TU_RING_BACK",
           "TU_BUSY_SIGNAL", "TU_CONNECTED", "TU_ERROR"}

\* The texts by which a notification line names state s, in the spelling of
\* the transitions ("DIAL TONE") and in that of state_messages[] ("DIAL_TONE").
Spellings(s) ==
    CASE s = "TU_ON_HOOK" -> {"ON HOOK"}
      [] s = "TU_RINGING" -> {"RINGING"}
      [] s = "TU_DIAL_TONE" -> {"DIAL TONE", "DIAL_TONE"}
      [] s = "TU_RING_BACK" -> {"RING BACK", "RING_BACK"}
      [] s = "TU_BUSY_SIGNAL" -> {"BUSY SIGNAL", "BUSY_SIGNAL"}
      [] s = "TU_CONNECTED" -> {"CONNECTED"}
      [] s = "TU_ERROR" -> {"ERROR"}

\* The lines of sequence w (of writes <<fd, line>>) that went to descriptor f.
RECURSIVE LinesIn(_, _)
LinesIn(w, f) ==
    IF w = <<>> THEN <<>>
    ELSE (IF Head(w)[1] = f THEN <<Head(w)[2]>> ELSE <<>>) \o LinesIn(Tail(w), f)

StateNamed(text) == CHOOSE s \in States : text \in Spellings(s)

\* What is known of a client socket after one more line is written to it:
\* `wrote`, the state named by the last state line written (a CHAT line names
\* none); `whole`, whether the bytes written so far end in CRLF; and `st`, the
\* state named by the last CRLF-terminated line the client has read.  Bytes
\* written after a line that lacks its CRLF arrive as part of that line, and
\* the line they complete names no state.
HearLine(h, line) ==
    [st |-> IF ~h.whole
            THEN IF line.eol = "CRLF" THEN "garbled" ELSE h.st
            ELSE IF line.eol # "CRLF" \/ line.text = "CHAT" THEN h.st
            ELSE StateNamed(line.text),
     whole |-> line.eol = "CRLF",
     wrote |-> IF line.text = "CHAT" THEN h.wrote ELSE StateNamed(line.text)]

RECURSIVE HearAll(_, _)
HearAll(h, lines) ==
    IF lines = <<>> THEN h ELSE HearAll(HearLine(h, Head(lines)), Tail(lines))

\* write(2) on a socket that was shut down for writing raises SIGPIPE, which
\* main() leaves at its default action: the process is killed.
Emit(t, writes) ==
    /\ sent' = [sent EXCEPT ![t] = @ \o writes]
    /\ heard' = [i \in TUs |-> HearAll(heard[i], LinesIn(writes, ClientFd(i)))]
    /\ sig' = IF \E k \in 1 .. Len(writes) : writes[k][1] \in shut
              THEN "SIGPIPE" ELSE sig

\* A thread stands at `at` in a process that is still running.
At(t, at) == sig = "none" /\ pc[t] = at

Goto(t, at) == pc' = [pc EXCEPT ![t] = at]

\* (a lock that is granted whoever holds the mutex)
Unlocked_any(m) == TRUE
\* pthread_mutex_lock(m) returns only when no thread holds m.
Unlocked(m) == m = NoThread

\* ------------------------------------------------------------- Init
Init ==
    /\ fd = [i \in TUs |-> -1]
    /\ ext = [i \in TUs |-> -1]
    /\ ref_count = [i \in TUs |-> 0]
    /\ state = [i \in TUs |-> "TU_ON_HOOK"]
    /\ peer = [i \in TUs |-> NULL]
    /\ mutex = [i \in TUs |-> NoThread]
    /\ freed = [i \in TUs |-> FALSE]
    /\ extensions = [e \in Slots |-> NULL]
    /\ active_tus = 0
    /\ lock = NoThread
    /\ woken = FALSE
    /\ pbx_freed = FALSE
    /\ shut = {}
    /\ pc = [t \in Threads |-> IF t = Main THEN "accept" ELSE "tu_init"]
    /\ cmd = [t \in TUs |-> NoCmd]
    /\ ncmd = 0
    /\ target = [t \in TUs |-> NULL]
    /\ arg = [t \in TUs |-> NULL]
    /\ reg = [t \in Threads |-> 0]
    /\ idx = 0
    /\ sent = [t \in TUs |-> <<>>]
    /\ heard = [i \in TUs |-> [st |-> "none", whole |-> TRUE, wrote |-> "none"]]
    /\ sig = "none"
    /\ closed = [t \in TUs |-> 0]

\* --------------------------------------------------------- tu_init
\* tu_init locks tu->mutex before pthread_mutex_init has run on it: the
\* malloc'ed bytes decide whether that lock returns (ok) or blocks forever.
tu_init(t) ==
    /\ At(t, "tu_init")
    /\ \E ok \in BOOLEAN :
        IF ok
        THEN /\ fd' = [fd EXCEPT ![t] = ClientFd(t)]
             /\ ext' = [ext EXCEPT ![t] = ClientFd(t)]
             /\ ref_count' = [ref_count EXCEPT ![t] = 1]
             /\ state' = [state EXCEPT ![t] = "TU_ON_HOOK"]
             /\ peer' = [peer EXCEPT ![t] = NULL]
             /\ mutex' = [mutex EXCEPT ![t] = NoThread]
             /\ Emit(t, notify_client(ClientFd(t), OnHookLine(ClientFd(t))))
             /\ Goto(t, "pbx_register")
        ELSE /\ Goto(t, "hung")
             /\ UNCHANGED <<fd, ext, ref_count, state, peer, mutex, sent, heard, sig>>
    /\ UNCHANGED <<freed, closed, pbxVars, cmd, ncmd, target, arg, reg>>

\* ------------------------------------------------------ pbx_register
\* tu_set_extension(tu, e): the value it leaves in tu->ext.
tu_set_extension(old, e) == IF old # -1 THEN old ELSE e

\* The line tu_set_extension writes (none when it fails).
tu_set_extension_line(f, old, e) ==
    IF old # -1 THEN <<>> ELSE notify_client(f, OnHookLine(e))

InRange(e) == e >= 0 /\ e < PBX_MAX_EXTENSIONS

\* (a registry that takes every slot for free)
SlotInUse_never(e) == FALSE
\* if (pbx->extensions[ext])
SlotInUse(e) == extensions[e] # NULL

\* (a registration that does not count the TU)
pbx_register_call_uncounted(t, e) ==
    /\ IF ~InRange(e)
       THEN /\ Goto(t, "register_failed")
            /\ UNCHANGED <<extensions, active_tus, ext, ref_count, sent, heard, sig>>
       ELSE /\ Unlocked(lock)
            /\ IF SlotInUse(e)
               THEN /\ Goto(t, "register_failed")
                    /\ UNCHANGED <<extensions, active_tus, ext, ref_count,
                                   sent, heard, sig>>
               ELSE /\ extensions' = [extensions EXCEPT ![e] = t]
                    /\ active_tus' = active_tus
                    /\ ext' = [ext EXCEPT ![t] = tu_set_extension(@, e)]
                    /\ Emit(t, tu_set_extension_line(fd[t], ext[t], e))
                    /\ ref_count' = [ref_count EXCEPT ![t] = @ + 1]
                    /\ Goto(t, "service")
    /\ UNCHANGED <<fd, closed, state, peer, mutex, freed, lock, woken, pbx_freed, shut,
                   idx, ncmd, target, arg, reg>>

\* pbx_register(pbx, tu, e), called by the thread of TU t.
pbx_register_call(t, e) ==
    /\ IF ~InRange(e)
       THEN /\ Goto(t, "register_failed")
            /\ UNCHANGED <<extensions, active_tus, ext, ref_count, sent, heard, sig>>
       ELSE /\ Unlocked(lock)
            /\ IF SlotInUse(e)
               THEN /\ Goto(t, "register_failed")
                    /\ UNCHANGED <<extensions, active_tus, ext, ref_count,
                                   sent, heard, sig>>
               ELSE /\ extensions' = [extensions EXCEPT ![e] = t]
                    /\ active_tus' = active_tus + 1
                    /\ ext' = [ext EXCEPT ![t] = tu_set_extension(@, e)]
                    /\ Emit(t, tu_set_extension_line(fd[t], ext[t], e))
                    /\ ref_count' = [ref_count EXCEPT ![t] = @ + 1]
                    /\ Goto(t, "service")
    /\ UNCHANGED <<fd, closed, state, peer, mutex, freed, lock, woken, pbx_freed, shut,
                   idx, ncmd, target, arg, reg>>

\* server.c registers the TU at the extension equal to its descriptor.
pbx_register(t) ==
    /\ At(t, "pbx_register")
    /\ pbx_register_call(t, fd[t])
    /\ UNCHANGED cmd

\* ------------------------------------------------- pbx_client_service
\* The function a command line is dispatched to.  pbx_dial returns at once
\* for an extension out of range.
Entry(c) ==
    CASE c.op = "pickup" -> "tu_pickup"
      [] c.op = "hangup" -> "tu_hangup"
      [] c.op = "chat" -> "tu_chat"
      [] c.op = "dial" -> IF InRange(c.n) THEN "pbx_dial" ELSE "service"

\* read() returns a complete command line (never again once the socket
\* has been shut down).
ReadCommand(t) ==
    /\ At(t, "service")
    /\ ncmd < MaxCmds
    /\ fd[t] \notin shut
    /\ \E c \in Commands :
        /\ cmd' = [cmd EXCEPT ![t] = c]
        /\ Goto(t, Entry(c))
    /\ ncmd' = ncmd + 1
    /\ sent' = [sent EXCEPT ![t] = <<>>]
    /\ UNCHANGED heard
    /\ UNCHANGED <<tuVars, pbxVars, target, arg, reg, sig>>

\* read() returns 0: the client has disconnected, or the socket was shut down.
ReadEOF(t) ==
    /\ At(t, "service")
    /\ cmd' = [cmd EXCEPT ![t] = EOFCmd]
    /\ Goto(t, "pbx_unregister")
    /\ sent' = [sent EXCEPT ![t] = <<>>]
    /\ UNCHANGED heard
    /\ UNCHANGED <<tuVars, pbxVars, ncmd, target, arg, reg, sig>>

\* --------------------------------------------------------- tu_pickup
tu_pickup(t) ==
    /\ At(t, "tu_pickup")
    /\ Unlocked(mutex[t])
    /\ IF state[t] # "TU_ON_HOOK" /\ state[t] # "TU_RINGING"
       THEN /\ Emit(t, notify_client_of_tu_state(t))
            /\ Goto(t, "service")
            /\ UNCHANGED <<state, mutex>>
       ELSE IF state[t] = "TU_ON_HOOK"
       THEN /\ state' = [state EXCEPT ![t] = "TU_DIAL_TONE"]
            /\ Emit(t, notify_client(fd[t], Line("DIAL TONE")))
            /\ Goto(t, "service")
            /\ UNCHANGED mutex
       ELSE /\ mutex' = [mutex EXCEPT ![t] = t]
            /\ Goto(t, "tu_pickup_peer")
            /\ UNCHANGED <<state, sent, heard, sig>>
    /\ UNCHANGED <<fd, closed, ext, ref_count, peer, freed, pbxVars, cmd, ncmd, target,
                   arg, reg>>

\* The state a TU that picks up while TU_RINGING moves to, and its peer with it.
PickupState == "TU_CONNECTED"
\* (a pickup that hands the caller a dial tone)
PickupPeerState_dial_tone == "TU_DIAL_TONE"
\* tu->peer->state = TU_CONNECTED
PickupPeerState == "TU_CONNECTED"

\* (a pickup that does not wait for the mutex of the peer)
tu_pickup_peer_unlocked(t) ==
    /\ At(t, "tu_pickup_peer")
    /\ LET p == peer[t] IN
        /\ p # NULL
        /\ state' = [state EXCEPT ![t] = PickupState, ![p] = PickupPeerState]
        /\ Emit(t, notify_client(fd[t], ConnectedLine(ext[p]))
                     \o notify_client(fd[p], ConnectedLine(ext[t])))
        /\ mutex' = [mutex EXCEPT ![t] = NoThread]
        /\ Goto(t, "service")
    /\ UNCHANGED <<fd, closed, ext, ref_count, peer, freed, pbxVars, cmd, ncmd, target,
                   arg, reg>>

\* The TU_RINGING branch: both transitions and both writes under both mutexes.
tu_pickup_peer(t) ==
    /\ At(t, "tu_pickup_peer")
    /\ LET p == peer[t] IN
        /\ p # NULL
        /\ Unlocked(mutex[p])
        /\ state' = [state EXCEPT ![t] = PickupState, ![p] = PickupPeerState]
        /\ Emit(t, notify_client(fd[t], ConnectedLine(ext[p]))
                     \o notify_client(fd[p], ConnectedLine(ext[t])))
        /\ mutex' = [mutex EXCEPT ![t] = NoThread]
        /\ Goto(t, "service")
    /\ UNCHANGED <<fd, closed, ext, ref_count, peer, freed, pbxVars, cmd, ncmd, target,
                   arg, reg>>

\* --------------------------------------------------------- tu_hangup
\* tu_hangup is called by the service loop and by pbx_unregister.
HangupReturn(t) == IF cmd[t].op = "EOF" THEN "unreg_unref" ELSE "service"

\* (a hangup that puts every peer on hook)
HangupPeerState_on_hook(s) == "TU_ON_HOOK"
\* What tu_hangup makes of the peer of a TU that hangs up in state s.
HangupPeerState(s) == IF s = "TU_RING_BACK" THEN "TU_ON_HOOK" ELSE "TU_DIAL_TONE"

\* (a hangup that tells every peer DIAL TONE)
HangupPeerLine_dial_tone(s, f) == Line("DIAL TONE")
\* The line it writes to that peer, whose descriptor is f.
HangupPeerLine(s, f) ==
    IF s = "TU_RING_BACK" THEN OnHookLine(f) ELSE Line("DIAL TONE")

InCall(s) == s \in {"TU_CONNECTED", "TU_RINGING", "TU_RING_BACK"}

tu_hangup(t) ==
    /\ At(t, "tu_hangup")
    /\ Unlocked(mutex[t])
    /\ IF InCall(state[t])
       THEN /\ mutex' = [mutex EXCEPT ![t] = t]
            /\ Goto(t, "tu_hangup_peer")
            /\ UNCHANGED <<state, sent, heard, sig>>
       ELSE IF state[t] \in {"TU_DIAL_TONE", "TU_BUSY_SIGNAL", "TU_ERROR"}
       THEN /\ state' = [state EXCEPT ![t] = "TU_ON_HOOK"]
            /\ Emit(t, notify_client(fd[t], OnHookLine(fd[t])))
            /\ IF peer[t] = NULL
               THEN /\ Goto(t, HangupReturn(t))
                    /\ UNCHANGED mutex
               ELSE /\ mutex' = [mutex EXCEPT ![t] = t]
                    /\ Goto(t, "tu_hangup_unref")
       ELSE /\ Emit(t, notify_client_of_tu_state(t))
            /\ Goto(t, HangupReturn(t))
            /\ UNCHANGED <<state, mutex>>
    /\ UNCHANGED <<fd, closed, ext, ref_count, peer, freed, pbxVars, cmd, ncmd, target,
                   arg, reg>>

\* (a hangup that leaves the pointer of the peer set)
tu_hangup_peer_keeps_link(t) ==
    /\ At(t, "tu_hangup_peer")
    /\ LET p == peer[t] IN
        /\ p # NULL
        /\ Unlocked(mutex[p])
        /\ state' = [state EXCEPT ![t] = "TU_ON_HOOK",
                                  ![p] = HangupPeerState(state[t])]
        /\ Emit(t, notify_client(fd[t], OnHookLine(fd[t]))
                     \o notify_client(fd[p], HangupPeerLine(state[t], fd[p])))
        /\ UNCHANGED peer
        /\ Goto(t, "tu_hangup_unref")
    /\ UNCHANGED <<fd, closed, ext, ref_count, mutex, freed, pbxVars, cmd, ncmd, target,
                   arg, reg>>

\* The TU_CONNECTED/TU_RINGING and TU_RING_BACK branches, under both mutexes.
tu_hangup_peer(t) ==
    /\ At(t, "tu_hangup_peer")
    /\ LET p == peer[t] IN
        /\ p # NULL
        /\ Unlocked(mutex[p])
        /\ state' = [state EXCEPT ![t] = "TU_ON_HOOK",
                                  ![p] = HangupPeerState(state[t])]
        /\ Emit(t, notify_client(fd[t], OnHookLine(fd[t]))
                     \o notify_client(fd[p], HangupPeerLine(state[t], fd[p])))
        /\ peer' = [peer EXCEPT ![p] = NULL]
        /\ Goto(t, "tu_hangup_unref")
    /\ UNCHANGED <<fd, closed, ext, ref_count, mutex, freed, pbxVars, cmd, ncmd, target,
                   arg, reg>>

\* (a hangup that leaves tu->peer set)
tu_hangup_end_keeps_peer(t) ==
    /\ At(t, "tu_hangup_end")
    /\ mutex' = [mutex EXCEPT ![t] = NoThread]
    /\ Goto(t, HangupReturn(t))
    /\ UNCHANGED <<fd, closed, ext, ref_count, state, peer, freed, pbxVars, cmd, ncmd,
                   target, arg, reg, sent, heard, sig>>

\* tu->peer = NULL and the unlock of tu->mutex.
tu_hangup_end(t) ==
    /\ At(t, "tu_hangup_end")
    /\ peer' = [peer EXCEPT ![t] = NULL]
    /\ mutex' = [mutex EXCEPT ![t] = NoThread]
    /\ Goto(t, HangupReturn(t))
    /\ UNCHANGED <<fd, closed, ext, ref_count, state, freed, pbxVars, cmd, ncmd, target,
                   arg, reg, sent, heard, sig>>

\* -------------------------------------------------- tu_ref, tu_unref
\* The call sites of tu_ref and tu_unref in the client service thread: where
\* the thread stands before the call, inside it and after it, and which TU the
\* call is about.
RefSite(at, store, next, obj) ==
    [at |-> at, store |-> store, next |-> next, obj |-> obj]

RefSites ==
    { RefSite("dial_ref_tu", "dial_ref_tu_store", "dial_ref_target", "tu"),
      RefSite("dial_ref_target", "dial_ref_target_store", "tu_dial", "target"),
      RefSite("tu_dial_ref_target", "tu_dial_ref_target_store", "tu_dial_ref_tu",
              "target"),
      RefSite("tu_dial_ref_tu", "tu_dial_ref_tu_store", "tu_dial_link", "tu"),
      RefSite("unreg_ref", "unreg_ref_store", "unreg_clear", "tu") }

UnrefSite(at, store, free, next, obj) ==
    [at |-> at, store |-> store, free |-> free, next |-> next, obj |-> obj]

UnrefSites ==
    { UnrefSite("tu_hangup_unref", "tu_hangup_unref_store", "tu_hangup_free",
                "tu_hangup_end", "peer"),
      UnrefSite("dial_unref_target", "dial_unref_target_store",
                "dial_unref_target_free", "dial_unref_tu", "target"),
      UnrefSite("dial_unref_tu", "dial_unref_tu_store", "dial_unref_tu_free",
                "pbx_dial_end", "tu"),
      UnrefSite("unreg_unref", "unreg_unref_store", "unreg_unref_free",
                "unreg_signal", "tu"),
      UnrefSite("unreg_unref2", "unreg_unref2_store", "unreg_unref2_free",
                "pbx_unregister_end", "tu"),
      UnrefSite("final_unref", "final_unref_store", "final_unref_free",
                "close", "tu"),
      UnrefSite("register_failed", "register_failed_store",
                "register_failed_free", "close", "tu") }

Obj(t, o) == CASE o = "tu" -> t
               [] o = "target" -> target[t]
               [] o = "peer" -> peer[t]

\* tu->ref_count++ is a load and a store with no lock around them.
Increment(n) == n + 1

tu_ref_load(t) ==
    \E s \in RefSites :
        /\ At(t, s.at)
        /\ reg' = [reg EXCEPT ![t] = ref_count[Obj(t, s.obj)]]
        /\ Goto(t, s.store)
        /\ UNCHANGED <<tuVars, pbxVars, cmd, ncmd, target, arg, sent, heard, sig>>

tu_ref_store(t) ==
    \E s \in RefSites :
        /\ At(t, s.store)
        /\ ref_count' = [ref_count EXCEPT ![Obj(t, s.obj)] = Increment(reg[t])]
        /\ reg' = [reg EXCEPT ![t] = 0]
        /\ Goto(t, s.next)
        /\ UNCHANGED <<fd, closed, ext, state, peer, mutex, freed, pbxVars, cmd, ncmd,
                       target, arg, sent, heard, sig>>

\* tu_unref: tu->ref_count-- under tu->mutex, which tu_ref does not take.
Decrement(n) == n - 1

tu_unref_lock(t) ==
    \E s \in UnrefSites :
        LET o == Obj(t, s.obj) IN
        /\ At(t, s.at)
        /\ Unlocked(mutex[o])
        /\ mutex' = [mutex EXCEPT ![o] = t]
        /\ reg' = [reg EXCEPT ![t] = ref_count[o]]
        /\ Goto(t, s.store)
        /\ UNCHANGED <<fd, closed, ext, ref_count, state, peer, freed, pbxVars, cmd,
                       ncmd, target, arg, sent, heard, sig>>

tu_unref_store(t) ==
    \E s \in UnrefSites :
        LET o == Obj(t, s.obj) IN
        /\ At(t, s.store)
        /\ ref_count' = [ref_count EXCEPT ![o] = Decrement(reg[t])]
        /\ mutex' = [mutex EXCEPT ![o] = NoThread]
        /\ reg' = [reg EXCEPT ![t] = 0]
        /\ Goto(t, IF Decrement(reg[t]) = 0 THEN s.free ELSE s.next)
        /\ UNCHANGED <<fd, closed, ext, state, peer, freed, pbxVars, cmd, ncmd, target,
                       arg, sent, heard, sig>>

\* The count has reached 0: close the descriptor, destroy the mutex, free.
\* (With a peer still linked, tu_unref first walks into the peer.)
tu_unref_free(t) ==
    \E s \in UnrefSites :
        LET o == Obj(t, s.obj) IN
        /\ At(t, s.free)
        /\ IF peer[o] # NULL
           THEN /\ Goto(t, "tu_unref_peer")
                /\ UNCHANGED <<fd, closed, freed>>
           ELSE /\ closed' = [closed EXCEPT ![o] = IF fd[o] >= 0 THEN @ + 1 ELSE @]
                /\ fd' = [fd EXCEPT ![o] = -1]
                /\ freed' = [freed EXCEPT ![o] = TRUE]
                /\ Goto(t, s.next)
        /\ UNCHANGED <<ext, ref_count, state, peer, mutex, pbxVars, cmd, ncmd,
                       target, arg, reg, sent, heard, sig>>

\* pbx_client_service ends with close(fd), after the tu_unref of a failed
\* registration and after the tu_unref that follows pbx_unregister.
close(t) ==
    /\ At(t, "close")
    /\ closed' = [closed EXCEPT ![t] = @ + 1]
    /\ Goto(t, "done")
    /\ UNCHANGED <<fd, ext, ref_count, state, peer, mutex, freed, pbxVars, cmd,
                   ncmd, target, arg, reg, sent, heard, sig>>

\* ---------------------------------------------------------- pbx_dial
\* (a dial that looks the target up without taking the PBX mutex)
pbx_dial_unlocked(t) ==
    /\ At(t, "pbx_dial")
    /\ LET target_tu == extensions[cmd[t].n] IN
        IF target_tu = NULL
        THEN /\ Goto(t, "service")
             /\ UNCHANGED target
        ELSE /\ target' = [target EXCEPT ![t] = target_tu]
             /\ Goto(t, "dial_ref_tu")
    /\ UNCHANGED <<tuVars, pbxVars, cmd, ncmd, arg, reg, sent, heard, sig>>

\* Reached for an extension in range.  An empty slot makes pbx_dial return
\* -1 at once; otherwise the PBX lock is held until pbx_dial_end.
pbx_dial(t) ==
    /\ At(t, "pbx_dial")
    /\ Unlocked(lock)
    /\ LET target_tu == extensions[cmd[t].n] IN
        IF target_tu = NULL
        THEN /\ Goto(t, "service")
             /\ UNCHANGED <<lock, target>>
        ELSE /\ lock' = t
             /\ target' = [target EXCEPT ![t] = target_tu]
             /\ Goto(t, "dial_ref_tu")
    /\ UNCHANGED <<tuVars, extensions, active_tus, woken, pbx_freed, shut, idx,
                   cmd, ncmd, arg, reg, sent, heard, sig>>

pbx_dial_end(t) ==
    /\ At(t, "pbx_dial_end")
    /\ lock' = NoThread
    /\ Goto(t, "service")
    /\ UNCHANGED <<tuVars, extensions, active_tus, woken, pbx_freed, shut, idx,
                   cmd, ncmd, target, arg, reg, sent, heard, sig>>

\* ----------------------------------------------------------- tu_dial
\* The first critical section of tu_dial, under tu->mutex alone.
tu_dial(t) ==
    /\ At(t, "tu_dial")
    /\ Unlocked(mutex[t])
    /\ IF state[t] # "TU_DIAL_TONE"
       THEN /\ Emit(t, notify_client_of_tu_state(t))
            /\ Goto(t, "dial_unref_target")
            /\ UNCHANGED <<state, arg>>
       ELSE IF target[t] = NULL
       THEN /\ state' = [state EXCEPT ![t] = "TU_ERROR"]
            /\ Emit(t, notify_client(fd[t], Line("ERROR")))
            /\ Goto(t, "dial_unref_target")
            /\ UNCHANGED arg
       ELSE /\ arg' = [arg EXCEPT ![t] = target[t]]
            /\ Goto(t, "tu_dial_lock")
            /\ UNCHANGED <<state, sent, heard, sig>>
    /\ UNCHANGED <<fd, closed, ext, ref_count, peer, mutex, freed, pbxVars, cmd, ncmd,
                   target, reg>>

\* safe_mutex_lock(tu1, tu2) locks the lower address first; for tu1 = tu2
\* both locks are the same mutex.
First(t, o) == IF Addr(t) < Addr(o) THEN t ELSE o
Second(t, o) == IF Addr(t) < Addr(o) THEN o ELSE t

tu_dial_lock(t) ==
    /\ At(t, "tu_dial_lock")
    /\ Unlocked(mutex[First(t, arg[t])])
    /\ mutex' = [mutex EXCEPT ![First(t, arg[t])] = t]
    /\ Goto(t, "tu_dial_lock2")
    /\ UNCHANGED <<fd, closed, ext, ref_count, state, peer, freed, pbxVars, cmd, ncmd,
                   target, arg, reg, sent, heard, sig>>

\* (a busy test that does not look at the state of the target)
Busy_peer_only(tu, tg) == tu = tg \/ peer[tg] # NULL
\* The busy test of tu_dial.
Busy(tu, tg) == tu = tg \/ state[tg] # "TU_ON_HOOK" \/ peer[tg] # NULL

\* The states a successful dial leaves the caller and the target in.
\* (a dial that leaves the caller in its state)
DialState_unchanged == "TU_DIAL_TONE"
\* tu->state = TU_RING_BACK
DialState == "TU_RING_BACK"
\* (a dial that does not ring the target)
DialTargetState_silent == "TU_ON_HOOK"
\* target->state = TU_RINGING
DialTargetState == "TU_RINGING"

\* (a dial that sets the pointer of the caller only)
tu_dial_lock2_one_way(t) ==
    /\ At(t, "tu_dial_lock2")
    /\ LET tg == arg[t] IN
        /\ Unlocked(mutex[Second(t, tg)])
        /\ IF Busy(t, tg)
           THEN /\ state' = [state EXCEPT ![t] = "TU_BUSY_SIGNAL"]
                /\ Emit(t, notify_client(fd[t], Line("BUSY SIGNAL")))
                /\ mutex' = [mutex EXCEPT ![First(t, tg)] = NoThread]
                /\ Goto(t, "dial_unref_target")
                /\ UNCHANGED peer
           ELSE /\ peer' = [peer EXCEPT ![t] = tg]
                /\ mutex' = [mutex EXCEPT ![Second(t, tg)] = t]
                /\ Goto(t, "tu_dial_ref_target")
                /\ UNCHANGED <<state, sent, heard, sig>>
    /\ UNCHANGED <<fd, closed, ext, ref_count, freed, pbxVars, cmd, ncmd, target,
                   arg, reg>>

\* The second lock of safe_mutex_lock (a default mutex that its own holder
\* locks again never returns), then the busy test and the peer links.
tu_dial_lock2(t) ==
    /\ At(t, "tu_dial_lock2")
    /\ LET tg == arg[t] IN
        /\ Unlocked(mutex[Second(t, tg)])
        /\ IF Busy(t, tg)
           THEN /\ state' = [state EXCEPT ![t] = "TU_BUSY_SIGNAL"]
                /\ Emit(t, notify_client(fd[t], Line("BUSY SIGNAL")))
                /\ mutex' = [mutex EXCEPT ![First(t, tg)] = NoThread]
                /\ Goto(t, "dial_unref_target")
                /\ UNCHANGED peer
           ELSE /\ peer' = [peer EXCEPT ![t] = tg, ![tg] = t]
                /\ mutex' = [mutex EXCEPT ![Second(t, tg)] = t]
                /\ Goto(t, "tu_dial_ref_target")
                /\ UNCHANGED <<state, sent, heard, sig>>
    /\ UNCHANGED <<fd, closed, ext, ref_count, freed, pbxVars, cmd, ncmd, target, arg,
                   reg>>

\* The state changes, the two writes and safe_mutex_unlock.
tu_dial_link(t) ==
    /\ At(t, "tu_dial_link")
    /\ LET tg == arg[t] IN
        /\ state' = [state EXCEPT ![t] = DialState, ![tg] = DialTargetState]
        /\ Emit(t, notify_client(fd[t], Line("RING BACK"))
                     \o notify_client(fd[tg], Line("RINGING")))
        /\ mutex' = [mutex EXCEPT ![t] = NoThread, ![tg] = NoThread]
    /\ Goto(t, "dial_unref_target")
    /\ UNCHANGED <<fd, closed, ext, ref_count, peer, freed, pbxVars, cmd, ncmd, target,
                   arg, reg>>

\* ----------------------------------------------------------- tu_chat
\* The first critical section of tu_chat, under tu->mutex alone.
tu_chat(t) ==
    /\ At(t, "tu_chat")
    /\ Unlocked(mutex[t])
    /\ IF state[t] # "TU_CONNECTED" \/ peer[t] = NULL
       THEN /\ Emit(t, notify_client_of_tu_state(t))
            /\ Goto(t, "service")
       ELSE /\ Goto(t, "tu_chat_peer")
            /\ UNCHANGED <<sent, heard, sig>>
    /\ UNCHANGED <<tuVars, pbxVars, cmd, ncmd, target, arg, reg>>

\* The argument tu->peer of safe_mutex_lock is read with no lock held; for a
\* null pointer safe_mutex_lock dereferences it.
tu_chat_peer(t) ==
    /\ At(t, "tu_chat_peer")
    /\ IF peer[t] = NULL
       THEN /\ sig' = "SIGSEGV"
            /\ UNCHANGED <<arg, pc>>
       ELSE /\ arg' = [arg EXCEPT ![t] = peer[t]]
            /\ Goto(t, "tu_chat_lock")
            /\ UNCHANGED sig
    /\ UNCHANGED <<tuVars, pbxVars, cmd, ncmd, target, reg, sent, heard>>

tu_chat_lock(t) ==
    /\ At(t, "tu_chat_lock")
    /\ Unlocked(mutex[First(t, arg[t])])
    /\ mutex' = [mutex EXCEPT ![First(t, arg[t])] = t]
    /\ Goto(t, "tu_chat_lock2")
    /\ UNCHANGED <<fd, closed, ext, ref_count, state, peer, freed, pbxVars, cmd, ncmd,
                   target, arg, reg, sent, heard, sig>>

\* The second lock, the two writes (the chat line goes to the descriptor
\* numbered tu->peer->ext) and safe_mutex_unlock(tu, tu->peer).
tu_chat_lock2(t) ==
    /\ At(t, "tu_chat_lock2")
    /\ Unlocked(mutex[Second(t, arg[t])])
    /\ LET p == peer[t] IN
        IF p = NULL
        THEN /\ sig' = "SIGSEGV"
             /\ UNCHANGED <<mutex, pc, sent, heard>>
        ELSE /\ Emit(t, notify_client(ext[p], ChatLine(cmd[t].msg))
                          \o notify_client(fd[t], ConnectedLine(ext[p])))
             /\ mutex' = [[mutex EXCEPT ![First(t, arg[t])] = NoThread]
                             EXCEPT ![t] = NoThread, ![p] = NoThread]
             /\ Goto(t, "service")
    /\ UNCHANGED <<fd, closed, ext, ref_count, state, peer, freed, pbxVars, cmd, ncmd,
                   target, arg, reg>>

\* ----------------------------------------------------- pbx_unregister
\* (a test that does not look at what the slot holds)
Registered_any(t) == InRange(ext[t])
\* The slot at tu_extension(tu) holds tu.
Registered(t) == InRange(ext[t]) /\ extensions[ext[t]] = t

\* Called by the service thread once read() has returned 0.  The PBX lock is
\* held from here to pbx_unregister_end, across tu_hangup.
pbx_unregister(t) ==
    /\ At(t, "pbx_unregister")
    /\ Unlocked(lock)
    /\ IF ~Registered(t)
       THEN /\ Goto(t, "final_unref")
            /\ UNCHANGED lock
       ELSE /\ lock' = t
            /\ Goto(t, "unreg_ref")
    /\ UNCHANGED <<tuVars, extensions, active_tus, woken, pbx_freed, shut, idx,
                   cmd, ncmd, target, arg, reg, sent, heard, sig>>

\* (an unregistration that leaves the TU in its slot)
unreg_clear_keeps_slot(t) ==
    /\ At(t, "unreg_clear")
    /\ active_tus' = active_tus - 1
    /\ Goto(t, "tu_hangup")
    /\ UNCHANGED <<tuVars, extensions, lock, woken, pbx_freed, shut, idx, cmd,
                   ncmd, target, arg, reg, sent, heard, sig>>

\* pbx->extensions[ext] = NULL; pbx->active_tus--; then tu_hangup(tu).
unreg_clear(t) ==
    /\ At(t, "unreg_clear")
    /\ extensions' = [extensions EXCEPT ![ext[t]] = NULL]
    /\ active_tus' = active_tus - 1
    /\ Goto(t, "tu_hangup")
    /\ UNCHANGED <<tuVars, lock, woken, pbx_freed, shut, idx, cmd, ncmd, target,
                   arg, reg, sent, heard, sig>>

\* pthread_cond_signal(&pbx->shutdown_cond) when no TU is left.
unreg_signal(t) ==
    /\ At(t, "unreg_signal")
    /\ woken' = IF active_tus = 0 /\ pc[Main] = "sd_waiting" THEN TRUE ELSE woken
    /\ Goto(t, "unreg_unref2")
    /\ UNCHANGED <<tuVars, extensions, active_tus, lock, pbx_freed, shut, idx,
                   cmd, ncmd, target, arg, reg, sent, heard, sig>>

pbx_unregister_end(t) ==
    /\ At(t, "pbx_unregister_end")
    /\ lock' = NoThread
    /\ Goto(t, "final_unref")
    /\ UNCHANGED <<tuVars, extensions, active_tus, woken, pbx_freed, shut, idx,
                   cmd, ncmd, target, arg, reg, sent, heard, sig>>

\* ------------------------------------------------------------- main
\* SIGHUP arrives while main() is blocked in accept(): accept fails with
\* EINTR, the loop breaks and main returns, which ends the process.
sighup_in_accept ==
    /\ At(Main, "accept")
    /\ sig' = "exit"
    /\ UNCHANGED <<tuVars, pbxVars, pc, cmd, ncmd, target, arg, reg, sent, heard>>

\* SIGHUP is seen at the top of the loop: terminate_server calls
\* pbx_shutdown, which takes the PBX lock and starts its first loop.
pbx_shutdown ==
    /\ At(Main, "accept")
    /\ Unlocked(lock)
    /\ lock' = Main
    /\ idx' = 0
    /\ Goto(Main, "sd_scan")
    /\ UNCHANGED <<tuVars, extensions, active_tus, woken, pbx_freed, shut, cmd,
                   ncmd, target, arg, reg, sent, heard, sig>>

\* The occupied slots from index i on.
Occupied(i) == {e \in Slots : e >= i /\ extensions[e] # NULL}

Lowest(S) == CHOOSE e \in S : \A x \in S : e <= x

\* The first loop, up to the next occupied slot: shutdown(fd, SHUT_RDWR) and
\* the load of tu_ref.
sd_scan ==
    /\ At(Main, "sd_scan")
    /\ IF Occupied(idx) = {}
       THEN /\ idx' = PBX_MAX_EXTENSIONS
            /\ Goto(Main, "sd_wait")
            /\ UNCHANGED <<shut, reg>>
       ELSE LET e == Lowest(Occupied(idx)) IN
            /\ idx' = e
            /\ shut' = IF fd[extensions[e]] >= 0
                       THEN shut \cup {fd[extensions[e]]} ELSE shut
            /\ reg' = [reg EXCEPT ![Main] = ref_count[extensions[e]]]
            /\ Goto(Main, "sd_ref_store")
    /\ UNCHANGED <<tuVars, extensions, active_tus, lock, woken, pbx_freed, cmd,
                   ncmd, target, arg, sent, heard, sig>>

sd_ref_store ==
    /\ At(Main, "sd_ref_store")
    /\ ref_count' = [ref_count EXCEPT ![extensions[idx]] = Increment(reg[Main])]
    /\ idx' = idx + 1
    /\ reg' = [reg EXCEPT ![Main] = 0]
    /\ Goto(Main, "sd_scan")
    /\ UNCHANGED <<fd, closed, ext, state, peer, mutex, freed, extensions, active_tus,
                   lock, woken, pbx_freed, shut, cmd, ncmd, target, arg, sent, heard,
                   sig>>

\* (a shutdown that does not wait for the TUs to unregister)
sd_wait_none ==
    /\ At(Main, "sd_wait")
    /\ lock' = NoThread
    /\ pbx_freed' = TRUE
    /\ Goto(Main, "exit")
    /\ UNCHANGED <<tuVars, extensions, active_tus, woken, shut, idx, cmd, ncmd,
                   target, arg, reg, sent, heard, sig>>

\* while (pbx->active_tus > 0) pthread_cond_wait(...): the wait releases the
\* PBX lock.  Past the loop come the second loop (no slot is occupied when no
\* TU is active), the unlock and free(pbx).
sd_wait ==
    /\ At(Main, "sd_wait")
    /\ IF active_tus > 0
       THEN /\ lock' = NoThread
            /\ woken' = FALSE
            /\ Goto(Main, "sd_waiting")
            /\ UNCHANGED pbx_freed
       ELSE /\ lock' = NoThread
            /\ pbx_freed' = TRUE
            /\ Goto(Main, "exit")
            /\ UNCHANGED woken
    /\ UNCHANGED <<tuVars, extensions, active_tus, shut, idx, cmd, ncmd, target,
                   arg, reg, sent, heard, sig>>

\* pthread_cond_wait returns, with the PBX lock, after a signal.
sd_wake ==
    /\ At(Main, "sd_waiting")
    /\ woken
    /\ Unlocked(lock)
    /\ lock' = Main
    /\ Goto(Main, "sd_wait")
    /\ UNCHANGED <<tuVars, extensions, active_tus, woken, pbx_freed, shut, idx,
                   cmd, ncmd, target, arg, reg, sent, heard, sig>>

\* POSIX lets pthread_cond_wait wake up with no signal.
spurious_wakeup ==
    /\ At(Main, "sd_waiting")
    /\ ~woken
    /\ woken' = TRUE
    /\ UNCHANGED <<tuVars, extensions, active_tus, lock, pbx_freed, shut, idx,
                   pc, cmd, ncmd, target, arg, reg, sent, heard, sig>>

\* terminate_server: exit(EXIT_SUCCESS).
exit ==
    /\ At(Main, "exit")
    /\ sig' = "exit"
    /\ UNCHANGED <<tuVars, pbxVars, pc, cmd, ncmd, target, arg, reg, sent, heard>>

\* --------------------------------------------------- use after free
\* The TUs whose memory the next step of a thread reads or writes.
Accessed(t) ==
    LET here == pc[t]
        refs == {s \in RefSites : here \in {s.at, s.store}}
        unrefs == {s \in UnrefSites : here \in {s.at, s.store, s.free}}
    IN  IF t = Main
        THEN IF here = "sd_scan" /\ Occupied(idx) # {}
             THEN {extensions[Lowest(Occupied(idx))]}
             ELSE IF here = "sd_ref_store" THEN {extensions[idx]} ELSE {}
        ELSE {Obj(t, s.obj) : s \in refs \cup unrefs}
             \cup (IF here \in {"pbx_register", "tu_pickup", "tu_pickup_peer",
                                "tu_hangup", "tu_hangup_peer", "tu_hangup_end",
                                "tu_dial", "tu_dial_lock", "tu_dial_lock2",
                                "tu_dial_link", "tu_chat", "tu_chat_peer",
                                "tu_chat_lock", "tu_chat_lock2", "pbx_unregister"}
                   THEN {t} ELSE {})
             \cup (IF here \in {"tu_pickup_peer", "tu_hangup_peer"}
                   THEN {peer[t]} ELSE {})
             \cup (IF here \in {"tu_dial_lock", "tu_dial_lock2", "tu_dial_link",
                                "tu_chat_lock", "tu_chat_lock2"}
                   THEN {arg[t]} ELSE {})

\* Where a client service thread reads or writes the PBX object.
PbxPlaces == {"pbx_register", "pbx_dial", "pbx_dial_end", "pbx_unregister",
              "unreg_clear", "unreg_signal", "pbx_unregister_end"}

\* A step on freed memory has undefined behaviour: the thread may carry on
\* with what the memory still holds (the action of the step itself), or the
\* access may fault.
UseAfterFree(t) ==
    /\ sig = "none"
    /\ \/ \E o \in Accessed(t) \ {NULL} : freed[o]
       \/ pbx_freed /\ t \in TUs /\ pc[t] \in PbxPlaces
    /\ sig' = "SIGSEGV"
    /\ UNCHANGED <<tuVars, pbxVars, pc, cmd, ncmd, target, arg, reg, sent, heard>>

\* ------------------------------------------------------------- Next
Step(t) ==
    \/ tu_init(t)
    \/ pbx_register(t)
    \/ ReadCommand(t)
    \/ ReadEOF(t)
    \/ tu_pickup(t)
    \/ tu_pickup_peer(t)
    \/ tu_hangup(t)
    \/ tu_hangup_peer(t)
    \/ tu_hangup_end(t)
    \/ tu_ref_load(t)
    \/ tu_ref_store(t)
    \/ tu_unref_lock(t)
    \/ tu_unref_store(t)
    \/ tu_unref_free(t)
    \/ pbx_dial(t)
    \/ pbx_dial_end(t)
    \/ tu_dial(t)
    \/ tu_dial_lock(t)
    \/ tu_dial_lock2(t)
    \/ tu_dial_link(t)
    \/ tu_chat(t)
    \/ tu_chat_peer(t)
    \/ tu_chat_lock(t)
    \/ tu_chat_lock2(t)
    \/ pbx_unregister(t)
    \/ unreg_clear(t)
    \/ unreg_signal(t)
    \/ pbx_unregister_end(t)
    \/ close(t)

MainStep ==
    \/ sighup_in_accept
    \/ pbx_shutdown
    \/ sd_scan
    \/ sd_ref_store
    \/ sd_wait
    \/ sd_wake
    \/ spurious_wakeup
    \/ exit

Next ==
    \/ \E t \in TUs : Step(t)
    \/ MainStep
    \/ \E t \in Threads : UseAfterFree(t)

Spec == Init /\ [][Next]_vars

\* ------------------------------------- the registry as an interface
\* pbx_register takes the extension as an argument of its own.  The second
\* specification runs the service thread of every connection without its
\* commands, and registers each TU at an extension that need not be its
\* descriptor: one of the tracked ones, a negative one or the first one out of
\* range.
RegExts == {ClientFd(i) : i \in TUs} \cup {-1, PBX_MAX_EXTENSIONS}

pbx_register_ext(t) ==
    /\ At(t, "pbx_register")
    /\ \E e \in RegExts :
        /\ cmd' = [cmd EXCEPT ![t] = Cmd("register", e, "")]
        /\ pbx_register_call(t, e)

StepPbx(t) ==
    \/ tu_init(t)
    \/ pbx_register_ext(t)
    \/ ReadEOF(t)
    \/ pbx_unregister(t)
    \/ tu_ref_load(t)
    \/ tu_ref_store(t)
    \/ unreg_clear(t)
    \/ tu_hangup(t)
    \/ tu_unref_lock(t)
    \/ tu_unref_store(t)
    \/ tu_unref_free(t)
    \/ unreg_signal(t)
    \/ pbx_unregister_end(t)
    \/ close(t)

NextPbx == \E t \in TUs : StepPbx(t)

SpecPbx == Init /\ [][NextPbx]_vars

TypeOK ==
    /\ fd \in [TUs -> {-1} \cup {ClientFd(i) : i \in TUs}]
    /\ ext \in [TUs -> {-1} \cup {ClientFd(i) : i \in TUs}]
    /\ ref_count \in [TUs -> Int]
    /\ state \in [TUs -> States]
    /\ peer \in [TUs -> TUs \cup {NULL}]
    /\ mutex \in [TUs -> TUs \cup {NoThread}]
    /\ freed \in [TUs -> BOOLEAN]
    /\ closed \in [TUs -> 0 .. 2]
    /\ extensions \in [Slots -> TUs \cup {NULL}]
    /\ active_tus \in 0 .. NumTU
    /\ lock \in Threads \cup {NoThread}
    /\ woken \in BOOLEAN
    /\ pbx_freed \in BOOLEAN
    /\ shut \subseteq {ClientFd(i) : i \in TUs}
    /\ ncmd \in 0 .. MaxCmds
    /\ target \in [TUs -> TUs \cup {NULL}]
    /\ arg \in [TUs -> TUs \cup {NULL}]
    /\ idx \in 0 .. PBX_MAX_EXTENSIONS
    /\ heard \in [TUs -> [st : States \cup {"none", "garbled"}, whole : BOOLEAN,
                           wrote : States \cup {"none"}]]
    /\ sig \in {"none", "exit", "SIGPIPE", "SIGSEGV"}

\* =============================================================== claims
\* The notification lines as a client is to receive them.
WireOnHook(e) == [text |-> "ON HOOK", num |-> <<e>>, msg |-> "", eol |-> "CRLF"]
WireConnected(e) == [text |-> "CONNECTED", num |-> <<e>>, msg |-> "", eol |-> "CRLF"]
WireLine(text) == [text |-> text, num |-> <<>>, msg |-> "", eol |-> "CRLF"]

\* Thread t takes the step that leaves place `at`, and the process lives on.
Leaves(t, at) == pc[t] = at /\ pc'[t] # at /\ sig' = "none"

\* The thread that holds the mutex the next step of thread t has to take
\* (NoThread when the step takes none, or the mutex is free).
Holder(t) ==
    IF t = Main
    THEN IF pc[Main] = "sd_waiting" /\ woken THEN lock ELSE NoThread
    ELSE CASE pc[t] \in {"pbx_register", "pbx_dial", "pbx_unregister"} -> lock
           [] pc[t] \in {"tu_pickup", "tu_hangup", "tu_dial", "tu_chat"} -> mutex[t]
           [] pc[t] \in {"tu_pickup_peer", "tu_hangup_peer"} -> mutex[peer[t]]
           [] pc[t] \in {"tu_dial_lock", "tu_chat_lock"} -> mutex[First(t, arg[t])]
           [] pc[t] \in {"tu_dial_lock2", "tu_chat_lock2"} ->
                  mutex[Second(t, arg[t])]
           [] \E s \in UnrefSites : pc[t] = s.at ->
                  mutex[Obj(t, (CHOOSE s \in UnrefSites : pc[t] = s.at).obj)]
           [] OTHER -> NoThread

\* The threads of G wait for one another: each waits for a mutex that
\* another thread of G holds, so none of them ever moves again.
WaitCycle(G) == G # {} /\ \A t \in G : Holder(t) \in G \ {t}

\* C1 (as the spec states it): deadlock freedom - in no reachable state is
\* there a set of threads each blocked on a TU or PBX mutex that another
\* thread of the set holds.
C1_NoDeadlock == sig = "none" => ~ \E G \in SUBSET Threads : WaitCycle(G)

\* C2 (as the spec states it): every command a client issues has produced
\* exactly one notification on that client's own socket by the time the
\* service thread is back at its read, whatever the state and the extension.
C2_OneNotification ==
    \A t \in TUs :
        (sig = "none" /\ pc[t] = "service"
            /\ cmd[t].op \in {"pickup", "hangup", "dial", "chat"})
        => Len(LinesIn(sent[t], ClientFd(t))) = 1

\* C3 (as the spec states it): a TU that dials its own extension completes
\* the command - its thread never waits for a mutex that it holds itself.
C3_SelfDialCompletes ==
    \A t \in TUs :
        ~(sig = "none" /\ pc[t] = "tu_dial_lock2" /\ arg[t] = t
            /\ mutex[Second(t, arg[t])] = t)

\* C4 (as the spec states it): a dial from DIAL_TONE to an extension at which
\* no TU is registered leaves the dialing TU in ERROR with the line ERROR
\* written to its client.
C4_DialUnregistered ==
    [][\A t \in TUs :
        (Leaves(t, "pbx_dial") /\ state[t] = "TU_DIAL_TONE"
            /\ extensions[cmd[t].n] = NULL)
        => /\ state'[t] = "TU_ERROR"
           /\ LinesIn(sent'[t], ClientFd(t)) = <<WireLine("ERROR")>>]_vars

\* C5: a dial whose caller is in DIAL_TONE and whose target is another TU
\* that is ON_HOOK with no peer links the two (caller.peer = target,
\* target.peer = caller) and makes them RING_BACK and RINGING while the
\* dialing thread holds both mutexes from the busy test to the end, and
\* writes RING BACK to the caller's client and RINGING to the target's
\* client, once each and nothing else.
C5_SuccessfulDial ==
    [][\A t \in TUs :
        LET tg == arg[t] IN
        /\ (Leaves(t, "tu_dial_lock2") /\ state[t] = "TU_DIAL_TONE" /\ tg # t
                /\ state[tg] = "TU_ON_HOOK" /\ peer[tg] = NULL)
           => /\ peer'[t] = tg /\ peer'[tg] = t
              /\ mutex'[t] = t /\ mutex'[tg] = t
              /\ pc'[t] = "tu_dial_ref_target"
        /\ (pc[t] \in {"tu_dial_ref_target", "tu_dial_ref_target_store",
                       "tu_dial_ref_tu", "tu_dial_ref_tu_store"}
                /\ pc'[t] # pc[t] /\ sig' = "none")
           => /\ mutex'[t] = t /\ mutex'[tg] = t
              /\ peer'[t] = tg /\ peer'[tg] = t
              /\ state'[t] = "TU_DIAL_TONE" /\ state'[tg] = "TU_ON_HOOK"
              /\ sent'[t] = <<>>
        /\ Leaves(t, "tu_dial_link")
           => /\ peer'[t] = tg /\ peer'[tg] = t
              /\ state'[t] = "TU_RING_BACK" /\ state'[tg] = "TU_RINGING"
              /\ sent'[t] = << <<ClientFd(t), WireLine("RING BACK")>>,
                               <<ClientFd(tg), WireLine("RINGING")>> >>]_vars

C5_Witness ==
    \E t \in TUs :
        /\ sig = "none" /\ pc[t] = "dial_unref_target"
        /\ state[t] = "TU_RING_BACK" /\ peer[t] # NULL /\ peer[t] # t
        /\ state[peer[t]] = "TU_RINGING" /\ peer[peer[t]] = t
        /\ Len(sent[t]) = 2

\* C6: a dial whose caller is in DIAL_TONE and whose target is another
\* registered TU that is not ON_HOOK or has a peer makes the caller
\* BUSY_SIGNAL with no peer, writes BUSY SIGNAL to the caller's client and
\* nothing to the target's, and leaves the target's state, peer and
\* descriptor as they were.
C6_DialBusy ==
    [][\A t \in TUs :
        LET tg == arg[t] IN
        (Leaves(t, "tu_dial_lock2") /\ state[t] = "TU_DIAL_TONE" /\ tg # t
            /\ (state[tg] # "TU_ON_HOOK" \/ peer[tg] # NULL))
        => /\ state'[t] = "TU_BUSY_SIGNAL" /\ peer'[t] = NULL
           /\ state'[tg] = state[tg] /\ peer'[tg] = peer[tg] /\ fd'[tg] = fd[tg]
           /\ sent'[t] = << <<ClientFd(t), WireLine("BUSY SIGNAL")>> >>
           /\ pc'[t] = "dial_unref_target"]_vars

C6_Witness ==
    \E t \in TUs :
        /\ sig = "none" /\ pc[t] = "dial_unref_target"
        /\ state[t] = "TU_BUSY_SIGNAL" /\ peer[t] = NULL
        /\ target[t] # t /\ state[target[t]] = "TU_DIAL_TONE"
        /\ sent[t] = << <<ClientFd(t), WireLine("BUSY SIGNAL")>> >>

\* C7 (as the spec states it): a pickup while RINGING makes the TU and its
\* peer CONNECTED in one step, keeps the peer link, and writes to each of
\* the two clients exactly one complete line CONNECTED <extension of the
\* other party>.
C7_PickupRinging ==
    [][\A t \in TUs :
        LET p == peer[t] IN
        Leaves(t, "tu_pickup_peer")
        => /\ state'[t] = "TU_CONNECTED" /\ state'[p] = "TU_CONNECTED"
           /\ peer'[t] = p /\ peer'[p] = t
           /\ sent'[t] = << <<ClientFd(t), WireConnected(ext[p])>>,
                            <<ClientFd(p), WireConnected(ext[t])>> >>]_vars

\* Thread t is inside the tu_unref(tu->peer) that ends tu_hangup.
InHangupUnref(t) ==
    pc[t] \in {"tu_hangup_unref", "tu_hangup_unref_store", "tu_hangup_free"}

\* What every hangup of a TU in a call does after the step on the two TUs:
\* it writes nothing more, keeps tu->mutex, and clears tu->peer before it
\* gives the mutex up.
HangupTail(t) ==
    /\ (InHangupUnref(t) /\ pc'[t] # pc[t] /\ sig' = "none")
       => /\ sent'[t] = sent[t]
          /\ mutex'[t] = t
          /\ state'[t] = "TU_ON_HOOK"
    /\ Leaves(t, "tu_hangup_end")
       => /\ peer'[t] = NULL
          /\ sent'[t] = sent[t]
          /\ state'[t] = "TU_ON_HOOK"

\* C8: a hangup of a CONNECTED TU makes it ON_HOOK and its peer DIAL_TONE,
\* clears the peer's pointer in the same step and its own before it unlocks,
\* and writes exactly ON HOOK <ext> to its own client and DIAL TONE to the
\* peer's.
C8_HangupConnected ==
    [][\A t \in TUs :
        LET p == peer[t] IN
        /\ (Leaves(t, "tu_hangup_peer") /\ state[t] = "TU_CONNECTED")
           => /\ state[p] = "TU_CONNECTED"
              /\ state'[t] = "TU_ON_HOOK" /\ state'[p] = "TU_DIAL_TONE"
              /\ peer'[p] = NULL
              /\ sent'[t] = << <<ClientFd(t), WireOnHook(ext[t])>>,
                               <<ClientFd(p), WireLine("DIAL TONE")>> >>
        /\ HangupTail(t)]_vars

C8_Witness ==
    \E t \in TUs :
        /\ sig = "none" /\ pc[t] = "tu_hangup_peer"
        /\ state[t] = "TU_CONNECTED" /\ state[peer[t]] = "TU_CONNECTED"
        /\ mutex[t] = t /\ mutex[peer[t]] = NoThread

\* C9: a hangup of a TU in RING_BACK makes it and its RINGING peer ON_HOOK,
\* clears the peer's pointer in the same step and its own before it unlocks,
\* and writes to each of the two clients its own line ON HOOK <ext>.
C9_HangupRingBack ==
    [][\A t \in TUs :
        LET p == peer[t] IN
        /\ (Leaves(t, "tu_hangup_peer") /\ state[t] = "TU_RING_BACK")
           => /\ state[p] = "TU_RINGING"
              /\ state'[t] = "TU_ON_HOOK" /\ state'[p] = "TU_ON_HOOK"
              /\ peer'[p] = NULL
              /\ sent'[t] = << <<ClientFd(t), WireOnHook(ext[t])>>,
                               <<ClientFd(p), WireOnHook(ext[p])>> >>
        /\ (Leaves(t, "tu_hangup_end") /\ Len(sent[t]) = 2
                /\ sent[t][2][2].text = "ON HOOK")
           => peer'[t] = NULL /\ state'[t] = "TU_ON_HOOK"]_vars

C9_Witness ==
    \E t \in TUs :
        /\ sig = "none" /\ pc[t] = "tu_hangup_unref" /\ peer[t] # NULL
        /\ state[t] = "TU_ON_HOOK" /\ state[peer[t]] = "TU_ON_HOOK"
        /\ peer[peer[t]] = NULL
        /\ sent[t] = << <<ClientFd(t), WireOnHook(ext[t])>>,
                        <<ClientFd(peer[t]), WireOnHook(ext[peer[t]])>> >>

\* C10 (as the spec states it): a hangup of a RINGING TU makes it ON_HOOK
\* and its RING_BACK peer ON_HOOK.
C10_HangupRinging_OnHook ==
    [][\A t \in TUs :
        (Leaves(t, "tu_hangup_peer") /\ state[t] = "TU_RINGING")
        => state'[t] = "TU_ON_HOOK" /\ state'[peer[t]] = "TU_ON_HOOK"]_vars

\* C10 (amended): a hangup of a RINGING TU makes it ON_HOOK and its
\* RING_BACK peer DIAL_TONE; the peer's pointer is cleared in the same step
\* and its own before it unlocks.
C10_HangupRinging ==
    [][\A t \in TUs :
        LET p == peer[t] IN
        /\ (Leaves(t, "tu_hangup_peer") /\ state[t] = "TU_RINGING")
           => /\ state[p] = "TU_RING_BACK"
              /\ state'[t] = "TU_ON_HOOK" /\ state'[p] = "TU_DIAL_TONE"
              /\ peer'[p] = NULL /\ peer'[t] = p /\ mutex'[t] = t
        /\ (Leaves(t, "tu_hangup_end") /\ Len(sent[t]) = 2
                /\ sent[t][2][2].text = "DIAL TONE")
           => peer'[t] = NULL]_vars

C10_Witness ==
    \E t \in TUs :
        /\ sig = "none" /\ pc[t] = "tu_hangup_peer"
        /\ state[t] = "TU_RINGING" /\ state[peer[t]] = "TU_RING_BACK"
        /\ mutex[t] = t /\ mutex[peer[t]] = NoThread

\* The step of thread t changes the state, the peer and the notifications of
\* no TU other than t.
OthersUntouched(t) ==
    \A x \in TUs \ {t} :
        /\ state'[x] = state[x] /\ peer'[x] = peer[x]
        /\ LinesIn(sent'[t], ClientFd(x)) = LinesIn(sent[t], ClientFd(x))

\* C11: on a TU that is ON_HOOK with no peer, pickup moves it to DIAL_TONE
\* (writing DIAL TONE), nobody but the TU itself moves it out of DIAL_TONE,
\* and the hangup that follows moves it back to ON_HOOK with no peer (writing
\* ON HOOK <ext>); neither command changes the state or the peer of another
\* TU or writes to another client.
C11_PickupHangup ==
    [][\A t \in TUs :
        /\ (Leaves(t, "tu_pickup") /\ state[t] = "TU_ON_HOOK" /\ peer[t] = NULL)
           => /\ state'[t] = "TU_DIAL_TONE" /\ peer'[t] = NULL
              /\ sent'[t] = << <<ClientFd(t), WireLine("DIAL TONE")>> >>
              /\ pc'[t] = "service"
              /\ OthersUntouched(t)
        /\ (state[t] = "TU_DIAL_TONE" /\ peer[t] = NULL /\ pc'[t] = pc[t])
           => state'[t] = "TU_DIAL_TONE" /\ peer'[t] = NULL
        /\ (Leaves(t, "tu_hangup") /\ state[t] = "TU_DIAL_TONE" /\ peer[t] = NULL)
           => /\ state'[t] = "TU_ON_HOOK" /\ peer'[t] = NULL
              /\ sent'[t] = << <<ClientFd(t), WireOnHook(ext[t])>> >>
              /\ pc'[t] = HangupReturn(t)
              /\ mutex'[t] = NoThread
              /\ OthersUntouched(t)]_vars

\* The first two commands of the first client were pickup and hangup, and
\* the hangup is about to act on the DIAL_TONE the pickup left.
C11_Witness ==
    \E t \in TUs :
        /\ sig = "none" /\ pc[t] = "tu_hangup" /\ cmd[t].op = "hangup"
        /\ state[t] = "TU_DIAL_TONE" /\ peer[t] = NULL /\ mutex[t] = NoThread
        /\ sent[t] = <<>> /\ ncmd = 2
        /\ \A x \in TUs \ {t} : pc[x] = "tu_init"

WireChat(msg) == [text |-> "CHAT", num |-> <<>>, msg |-> msg, eol |-> "CRLF"]

\* C12: a chat by a CONNECTED TU writes exactly one line CHAT <text> to the
\* peer's client and exactly one line CONNECTED <peer-ext> to its own, and
\* changes the state and the peer of no TU.
C12_Chat ==
    [][\A t \in TUs :
        Leaves(t, "tu_chat_lock2")
        => LET p == peer[t] IN
           /\ sent'[t] = << <<ClientFd(p), WireChat(cmd[t].msg)>>,
                            <<ClientFd(t), WireConnected(ext[p])>> >>
           /\ state' = state /\ peer' = peer]_vars

\* What the TU operations return when the TU is found in state s (with peer p):
\* the value of the `return` each branch ends in.
tu_pickup_return(s) == 0
tu_hangup_return(s) == IF s = "TU_ON_HOOK" THEN -1 ELSE 0
tu_dial_return(s) == IF s # "TU_DIAL_TONE" THEN -1 ELSE 0
tu_chat_return(s, p) == IF s # "TU_CONNECTED" \/ p = NULL THEN -1 ELSE 0

\* The step of thread t changes no state and no peer, and writes one line,
\* to t's own client, that names the state of t.
NoOpReemits(t) ==
    /\ state' = state /\ peer' = peer
    /\ Len(sent'[t]) = 1
    /\ sent'[t][1][1] = ClientFd(t)
    /\ sent'[t][1][2].text \in Spellings(state[t])
    /\ sent'[t][1][2].eol = "CRLF"

\* C13: a command in the wrong state (pickup outside ON_HOOK/RINGING, hangup
\* in ON_HOOK, dial outside DIAL_TONE, chat outside CONNECTED) changes the
\* state and peer of no TU, writes to no other client, writes the commanding
\* TU's current state to its own client, and returns 0.
C13_WrongState ==
    [][\A t \in TUs :
        /\ (Leaves(t, "tu_pickup")
                /\ state[t] \notin {"TU_ON_HOOK", "TU_RINGING"})
           => NoOpReemits(t) /\ tu_pickup_return(state[t]) = 0
        /\ (Leaves(t, "tu_hangup") /\ cmd[t].op = "hangup"
                /\ state[t] = "TU_ON_HOOK")
           => NoOpReemits(t) /\ tu_hangup_return(state[t]) = 0
        /\ (Leaves(t, "tu_chat") /\ state[t] # "TU_CONNECTED")
           => NoOpReemits(t) /\ tu_chat_return(state[t], peer[t]) = 0
        /\ (Leaves(t, "tu_dial") /\ state[t] # "TU_DIAL_TONE")
           => NoOpReemits(t) /\ tu_dial_return(state[t]) = 0
        /\ (Leaves(t, "pbx_dial") /\ state[t] # "TU_DIAL_TONE"
                /\ pc'[t] = "service")
           => NoOpReemits(t)]_vars

\* The same without the return values and without the dial of an extension
\* at which nobody is registered: what the other wrong-state commands do.
C13_Reemission ==
    [][\A t \in TUs :
        /\ (Leaves(t, "tu_pickup")
                /\ state[t] \notin {"TU_ON_HOOK", "TU_RINGING"})
           => NoOpReemits(t)
        /\ (Leaves(t, "tu_hangup") /\ cmd[t].op = "hangup"
                /\ state[t] = "TU_ON_HOOK")
           => NoOpReemits(t)
        /\ (Leaves(t, "tu_chat") /\ state[t] # "TU_CONNECTED")
           => NoOpReemits(t)
        /\ (Leaves(t, "tu_dial") /\ state[t] # "TU_DIAL_TONE")
           => NoOpReemits(t)]_vars

\* The eight encodings of a line on the wire: a state name, followed by an
\* extension for ON HOOK and CONNECTED, or CHAT and a text; each ends in CRLF.
IsWire(line) ==
    /\ line.eol = "CRLF"
    /\ \/ /\ line.text \in {"ON HOOK", "CONNECTED"}
          /\ Len(line.num) = 1 /\ line.msg = ""
       \/ /\ line.text \in {"RINGING", "DIAL TONE", "RING BACK", "BUSY SIGNAL",
                            "ERROR"}
          /\ line.num = <<>> /\ line.msg = ""
       \/ line.text = "CHAT" /\ line.num = <<>>

\* C14: every line written to a client socket is one of the eight wire
\* encodings, the lines re-emitted after a no-op included.
C14_WireEncodings ==
    \A t \in TUs : \A k \in 1 .. Len(sent[t]) : IsWire(sent[t][k][2])

\* The TU transition table: the pairs (state, next state) of the transitions
\* a TU makes on its own commands and on those of its peer.
Transitions ==
    { <<"TU_ON_HOOK", "TU_DIAL_TONE">>, <<"TU_ON_HOOK", "TU_RINGING">>,
      <<"TU_RINGING", "TU_CONNECTED">>, <<"TU_RINGING", "TU_ON_HOOK">>,
      <<"TU_DIAL_TONE", "TU_ON_HOOK">>, <<"TU_DIAL_TONE", "TU_ERROR">>,
      <<"TU_DIAL_TONE", "TU_BUSY_SIGNAL">>, <<"TU_DIAL_TONE", "TU_RING_BACK">>,
      <<"TU_RING_BACK", "TU_ON_HOOK">>, <<"TU_RING_BACK", "TU_CONNECTED">>,
      <<"TU_RING_BACK", "TU_DIAL_TONE">>,
      <<"TU_BUSY_SIGNAL", "TU_ON_HOOK">>,
      <<"TU_CONNECTED", "TU_ON_HOOK">>, <<"TU_CONNECTED", "TU_DIAL_TONE">>,
      <<"TU_ERROR", "TU_ON_HOOK">> }

\* State g is state h again, or the first ON HOOK, or a state the table
\* allows after h.
Follows(h, g) ==
    \/ g = h
    \/ h = "none" /\ g = "TU_ON_HOOK"
    \/ <<h, g>> \in Transitions

\* C15: the state notifications a client receives (the CRLF-terminated lines
\* it reads) start with ON HOOK, and each names the state of the one before
\* it or a state that the transition table allows after it.
C15_ValidPath ==
    [][\A x \in TUs : Follows(heard[x].st, heard'[x].st)]_vars

\* The same of the state names as they are written to the socket, whether or
\* not the line that carries them is complete.
C15_WrittenPath ==
    [][\A x \in TUs : Follows(heard[x].wrote, heard'[x].wrote)]_vars

\* The writes thread t makes in the step.
NewWrites(t) ==
    IF Len(sent'[t]) > Len(sent[t])
    THEN SubSeq(sent'[t], Len(sent[t]) + 1, Len(sent'[t]))
    ELSE <<>>

BothAtOnce(t, a, b) ==
    /\ state'[a] # state[a] /\ state'[b] # state[b]
    /\ Len(NewWrites(t)) = 2
    /\ NewWrites(t)[1][1] = ClientFd(a) /\ NewWrites(t)[2][1] = ClientFd(b)
    /\ \A x \in {a, b} : mutex[x] \in {NoThread, t} /\ mutex'[x] \in {NoThread, t}

\* C17: the transitions of dial, of pickup from RINGING and of hangup from
\* RING_BACK, CONNECTED and RINGING change both states and write both
\* notifications in one critical section under both mutexes; and no step of
\* any thread changes the state of a TU whose mutex another thread holds.
C17_TwoPartyAtomic ==
    [][\A t \in TUs :
        /\ Leaves(t, "tu_dial_link")
           => BothAtOnce(t, t, arg[t]) /\ mutex[t] = t /\ mutex[arg[t]] = t
        /\ Leaves(t, "tu_pickup_peer")
           => BothAtOnce(t, t, peer[t]) /\ mutex[t] = t
        /\ Leaves(t, "tu_hangup_peer")
           => BothAtOnce(t, t, peer[t]) /\ mutex[t] = t
        /\ pc'[t] # pc[t]
           => \A x \in TUs :
                state'[x] # state[x]
                => mutex[x] \in {NoThread, t} /\ mutex'[x] \in {NoThread, t}]_vars

\* A pickup from RINGING has just made both parties CONNECTED and written to
\* both clients.
C17_Witness ==
    \E t \in TUs :
        /\ sig = "none" /\ pc[t] = "service" /\ cmd[t].op = "pickup"
        /\ Len(sent[t]) = 2 /\ peer[t] # NULL
        /\ state[t] = "TU_CONNECTED" /\ state[peer[t]] = "TU_CONNECTED"

\* The state unregistration is to leave a peer in that was in state s, and
\* the line that tells the client of the peer, whose extension is e.
TornDownState(s) == IF s = "TU_RINGING" THEN "TU_ON_HOOK" ELSE "TU_DIAL_TONE"
TornDownLine(s, e) ==
    IF s = "TU_RINGING" THEN WireOnHook(e) ELSE WireLine("DIAL TONE")

\* C20: pbx_unregister of a TU that is in a call makes its peer ON_HOOK if the
\* peer was RINGING and DIAL_TONE if it was RING_BACK or CONNECTED, writes to
\* the peer's client the one line of that state, and when it returns the TU
\* and its former peer both have no peer and that line is the only one the
\* peer's client was written.
C20_UnregisterTearsDown ==
    [][\A t \in TUs :
        /\ (Leaves(t, "tu_hangup_peer") /\ cmd[t].op = "EOF")
           => LET p == peer[t] IN
              /\ state[p] \in {"TU_RINGING", "TU_RING_BACK", "TU_CONNECTED"}
              /\ state'[p] = TornDownState(state[p])
              /\ peer'[p] = NULL
              /\ LinesIn(NewWrites(t), ClientFd(p))
                    = <<TornDownLine(state[p], ext[p])>>
        /\ (Leaves(t, "pbx_unregister_end") /\ Len(sent[t]) = 2)
           => /\ peer'[t] = NULL
              /\ \A x \in TUs \ {t} :
                    sent[t][2][1] = ClientFd(x)
                    => /\ peer'[x] = NULL
                       /\ Len(LinesIn(sent[t], ClientFd(x))) = 1
                       /\ sent[t][2][2].text \in Spellings(TornDownState("TU_RINGING"))
                                           \cup Spellings(TornDownState("TU_CONNECTED"))]_vars

\* pbx_unregister is about to return from the teardown of a call.
C20_Witness ==
    \E t \in TUs :
        /\ sig = "none" /\ pc[t] = "pbx_unregister_end" /\ cmd[t].op = "EOF"
        /\ lock = t /\ Len(sent[t]) = 2 /\ peer[t] = NULL
        /\ \E x \in TUs \ {t} : sent[t][2][1] = ClientFd(x) /\ peer[x] = NULL

\* C18: pbx_register(tu, e) fails when e is outside [0, PBX_MAX_EXTENSIONS-1]
\* or the slot at e is occupied, and then leaves the registry, active_tus and
\* the extension, state and reference count of the TU as they were; otherwise
\* it stores the TU in the slot and counts it.
C18_RegisterFails ==
    [][\A t \in TUs :
        Leaves(t, "pbx_register")
        => LET e == cmd'[t].n IN
           IF ~InRange(e) \/ extensions[e] # NULL
           THEN /\ pc'[t] = "register_failed"
                /\ extensions' = extensions /\ active_tus' = active_tus
                /\ ext'[t] = ext[t] /\ state'[t] = state[t]
                /\ ref_count'[t] = ref_count[t]
           ELSE /\ pc'[t] = "service"
                /\ extensions'[e] = t /\ active_tus' = active_tus + 1]_vars

\* A registration at the slot that another TU occupies has failed.
C18_Witness ==
    \E t \in TUs :
        /\ sig = "none" /\ pc[t] = "register_failed" /\ cmd[t].op = "register"
        /\ InRange(cmd[t].n) /\ extensions[cmd[t].n] \in TUs \ {t}
        /\ ref_count[t] = 1 /\ state[t] = "TU_ON_HOOK"

\* C19: pbx_unregister(tu) fails when the slot at the extension of the TU
\* does not hold the TU, and then leaves the registry, active_tus and the
\* state, peer and reference count of every TU as they were, writes nothing
\* and does not keep the PBX lock; otherwise it goes on under the PBX lock.
C19_UnregisterFails ==
    [][\A t \in TUs :
        Leaves(t, "pbx_unregister")
        => IF ~InRange(ext[t]) \/ extensions[ext[t]] # t
           THEN /\ pc'[t] = "final_unref"
                /\ UNCHANGED <<extensions, active_tus, state, peer, ref_count,
                               sent, heard, lock>>
           ELSE pc'[t] = "unreg_ref" /\ lock' = t]_vars

\* The unregistration of a TU that is registered, but not in the slot at its
\* extension, has failed.
C19_Witness ==
    \E t \in TUs :
        /\ sig = "none" /\ pc[t] = "final_unref" /\ cmd[t].op = "EOF"
        /\ extensions[ext[t]] # t
        /\ \E e \in Slots : extensions[e] = t
        /\ ref_count[t] = 2 /\ lock = NoThread

\* pbx_unregister(tu) has returned to the service thread of TU x.
UnregisterReturned(x) ==
    /\ cmd[x].op = "EOF"
    /\ pc[x] \in {"final_unref", "final_unref_store", "final_unref_free",
                "close", "done"}

\* C21: once pbx_unregister has returned for a TU, no step of any thread
\* writes a line to the socket of that TU.
C21_NoWriteAfterUnregister ==
    [][\A t, x \in TUs :
        UnregisterReturned(x) => LinesIn(NewWrites(t), ClientFd(x)) = <<>>]_vars

\* A TU has been unregistered and its thread has ended; another TU, in
\* DIAL_TONE, is about to look up the extension the first one had.
C21_Witness ==
    \E t, x \in TUs :
        /\ t # x /\ sig = "none"
        /\ UnregisterReturned(x) /\ pc[x] = "done"
        /\ pc[t] = "pbx_dial" /\ cmd[t].n = ClientFd(x)
        /\ state[t] = "TU_DIAL_TONE"

\* The places of a service thread inside pbx_unregister, past its test.
InUnregister(t) ==
    /\ cmd[t].op = "EOF"
    /\ pc[t] \notin {"service", "pbx_unregister", "final_unref",
                     "final_unref_store", "final_unref_free", "close", "done"}

\* C22: when pbx_shutdown leaves its wait, active_tus is 0, every registry
\* slot is empty and no thread is inside pbx_unregister.
C22_ShutdownAfterUnregister ==
    [][(Leaves(Main, "sd_wait") /\ pc'[Main] = "exit")
        => /\ active_tus = 0
           /\ \A e \in Slots : extensions[e] = NULL
           /\ \A t \in TUs : ~InUnregister(t)]_vars

\* pbx_shutdown has left its wait with every TU that was registered
\* unregistered again.
C22_Witness ==
    /\ sig = "none" /\ pc[Main] = "exit" /\ pbx_freed
    /\ active_tus = 0 /\ \A e \in Slots : extensions[e] = NULL
    /\ \E x \in TUs : UnregisterReturned(x)

\* ------------------------------------------------ shutdown drains
\* The scheduling the claim on draining assumes.  A thread that is inside an
\* operation takes its next step when that step stays possible; a service
\* thread whose socket pbx_shutdown has shut down reads end of file; the main
\* thread, once inside pbx_shutdown, goes on.  No client has to send a
\* command or to disconnect, and no wakeup without a signal has to come.
Run(t) == Step(t) /\ (pc[t] = "service" => fd[t] \in shut)

MainRun == sd_scan \/ sd_ref_store \/ sd_wait \/ sd_wake \/ exit

SpecDrain ==
    Init /\ [][Next]_vars /\ WF_vars(MainRun) /\ \A t \in TUs : WF_vars(Run(t))

InShutdown == pc[Main] \in {"sd_scan", "sd_ref_store", "sd_wait", "sd_waiting"}

\* C23: under fair scheduling, with every service thread whose socket was
\* shut down reading end of file and calling pbx_unregister, a pbx_shutdown
\* that was invoked eventually returns.
C23_ShutdownDrains == InShutdown ~> (pc[Main] = "exit")

\* ------------------------------------------------- the descriptor
\* C24: the descriptor of a connection is closed only when the reference
\* count of its TU has reached zero, it is not closed a second time, and a
\* service thread that has ended leaves it closed exactly once.
C24_ClosedOnce ==
    [][\A x \in TUs :
        /\ closed'[x] # closed[x] => (closed[x] = 0 /\ ref_count[x] = 0)
        /\ pc'[x] = "done" => closed'[x] = 1]_vars

\* --------------------------------------------------- tu_set_extension
\* What tu_set_extension returns for a TU whose ext field holds old.
tu_set_extension_return(old) == IF old # -1 THEN -1 ELSE 0

\* C25: tu_init leaves the extension unset, and the tu_set_extension of a
\* successful registration, the first call on the TU, returns 0 and stores the
\* extension.
C25_SetExtensionOnce ==
    [][\A t \in TUs :
        /\ (Leaves(t, "tu_init") /\ pc'[t] = "pbx_register")
            => ext'[t] = -1
        /\ (Leaves(t, "pbx_register") /\ pc'[t] = "service")
            => /\ tu_set_extension_return(ext[t]) = 0
               /\ ext'[t] = fd[t]]_vars

\* ------------------------------------------------------ the peer links
\* C26: whenever neither mutex is held, a TU whose peer is B is the peer of B.
C26_PeerSymmetry ==
    \A a, b \in TUs :
        (peer[a] = b /\ mutex[a] = NoThread /\ mutex[b] = NoThread)
            => peer[b] = a

\* Two TUs in a call, linked both ways, with both mutexes free.
C26_Witness ==
    \E a, b \in TUs :
        /\ a # b /\ sig = "none"
        /\ peer[a] = b /\ peer[b] = a
        /\ mutex[a] = NoThread /\ mutex[b] = NoThread
        /\ state[a] = "TU_CONNECTED"

PairedStates ==
    { <<"TU_RING_BACK", "TU_RINGING">>, <<"TU_RINGING", "TU_RING_BACK">>,
      <<"TU_CONNECTED", "TU_CONNECTED">> }

\* C27: whenever neither mutex is held, a TU and its peer are ring back and
\* ringing, ringing and ring back, or both connected.
C27_PeerStates ==
    \A a, b \in TUs :
        (peer[a] = b /\ mutex[a] = NoThread /\ mutex[b] = NoThread)
            => <<state[a], state[b]>> \in PairedStates

\* A caller hearing ring back, linked to a ringing TU, both mutexes free.
C27_Witness ==
    \E a, b \in TUs :
        /\ a # b /\ sig = "none"
        /\ peer[a] = b
        /\ mutex[a] = NoThread /\ mutex[b] = NoThread
        /\ state[a] = "TU_RING_BACK" /\ state[b] = "TU_RINGING"

\* C28: whenever the mutex of a TU is not held, the TU has a peer exactly
\* when it is ringing, hearing ring back or connected.
C28_PeerIffInCall ==
    \A a \in TUs :
        mutex[a] = NoThread
            => (peer[a] # NULL <=> state[a] \in {"TU_RINGING", "TU_RING_BACK",
                                                 "TU_CONNECTED"})

\* A caller back at the dial tone with no peer, after the TU it rang hung up,
\* and both mutexes free.
C28_Witness ==
    \E a, b \in TUs :
        /\ a # b /\ sig = "none"
        /\ mutex[a] = NoThread /\ mutex[b] = NoThread
        /\ cmd[a] = Cmd("dial", ClientFd(b), "")
        /\ state[a] = "TU_DIAL_TONE" /\ peer[a] = NULL
        /\ cmd[b].op = "hangup" /\ pc[b] = "service"
        /\ state[b] = "TU_ON_HOOK" /\ peer[b] = NULL
        /\ Len(sent[b]) = 2 /\ sent[b][2] = <<ClientFd(a), Line("DIAL TONE")>>

\* -------------------------------------------------------- the registry
OccupiedSlots == {e \in Slots : extensions[e] # NULL}

\* C29: whenever the PBX lock is not held, active_tus is the number of
\* occupied registry slots.
C29_ActiveCount ==
    lock = NoThread => active_tus = Cardinality(OccupiedSlots)

\* One TU has registered and unregistered, the other is registered and has
\* dialled, and the PBX lock is free.
C29_Witness ==
    \E a, b \in TUs :
        /\ a # b /\ sig = "none" /\ lock = NoThread
        /\ pc[a] = "done" /\ cmd[a].op = "EOF"
        /\ cmd[b].op = "dial" /\ pc[b] = "service"
        /\ OccupiedSlots = {ClientFd(b)} /\ active_tus = 1

\* C30: every occupied registry slot holds a TU whose extension is the index
\* of the slot, whatever extension the TU was registered at.
C30_SlotIsExtension ==
    \A e \in Slots : extensions[e] # NULL => ext[extensions[e]] = e

\* ------------------------------------------------------- lock order
\* Where a thread that holds one TU mutex takes a second one: the TU whose
\* mutex it holds and the TU whose mutex its next step takes.
SecondLockPlaces ==
    {"tu_pickup_peer", "tu_hangup_peer", "tu_hangup_unref", "tu_dial_lock2",
     "tu_chat_lock2"}

HeldFirst(t) ==
    IF pc[t] \in {"tu_dial_lock2", "tu_chat_lock2"} THEN First(t, arg[t]) ELSE t

TakenSecond(t) ==
    IF pc[t] \in {"tu_dial_lock2", "tu_chat_lock2"}
    THEN Second(t, arg[t]) ELSE peer[t]

\* C31: a thread that holds one TU mutex and acquires a second one holds the
\* mutex of the TU that comes first in the order on TU identities.
C31_LockOrder ==
    [][\A t \in TUs : \A at \in SecondLockPlaces :
        Leaves(t, at) => Addr(HeldFirst(t)) < Addr(TakenSecond(t))]_vars

\* Where the next step of a service thread acquires a TU mutex.
TuLockPlaces ==
    {"tu_pickup", "tu_pickup_peer", "tu_hangup", "tu_hangup_peer", "tu_dial",
     "tu_dial_lock", "tu_dial_lock2", "tu_chat", "tu_chat_lock",
     "tu_chat_lock2"} \cup {s.at : s \in UnrefSites}

\* C32: no thread holds the PBX mutex in a step in which it acquires a TU
\* mutex.
C32_NoTuLockUnderPbxLock ==
    [][\A t \in TUs : \A at \in TuLockPlaces : Leaves(t, at) => lock # t]_vars

\* ------------------------------------------------ peer re-validation
\* No TU and no PBX has been freed: a fault can then come from tu_chat only.
NothingFreed == ~pbx_freed /\ \A o \in TUs : ~freed[o]

\* C33: a tu_chat that finds its peer cleared once it goes for the two locks
\* does not dereference the cleared pointer.
C33_PeerRevalidated ==
    [][\A t \in TUs :
        (pc[t] \in {"tu_chat_peer", "tu_chat_lock2"} /\ peer[t] = NULL
            /\ NothingFreed)
        => sig' # "SIGSEGV"]_vars

\* ------------------------------------------------- reference counts
\* No operation is in progress: every service thread is between two reads
\* (or not yet registered, or gone) and pbx_shutdown has not been called.
Quiescent ==
    /\ pc[Main] = "accept"
    /\ \A t \in TUs : pc[t] \in {"tu_init", "hung", "pbx_register", "service",
                                 "done"}

\* C34: once no call is up, the reference count of a registered TU is what it
\* was before the dial, 2: one reference of its service thread and one of the
\* registry.
C34_PeerRefsReleased ==
    \A t \in TUs :
        (Quiescent /\ pc[t] = "service" /\ peer[t] = NULL) => ref_count[t] = 2

\* The TUs pbx_shutdown has taken a reference on in its first loop: those
\* whose socket it has shut down, once the loop is over.
Pinned == {x \in TUs : ClientFd(x) \in shut}

\* The wait of pbx_shutdown is over: it is at its loop test, or blocked in
\* pthread_cond_wait, with no TU active.  What is left of pbx_shutdown is the
\* second loop, which calls tu_unref on the TUs it finds in the registry.
WaitOver == pc[Main] \in {"sd_wait", "sd_waiting"} /\ active_tus = 0

\* C35: when the wait of pbx_shutdown is over, every TU it has pinned is in
\* its registry slot, where the second loop drops the reference.
C35_ShutdownDropsPins ==
    WaitOver => \A x \in Pinned : extensions[ClientFd(x)] = x

\* The service thread of TU x still holds the reference tu_init gave it.
AdapterHolds(x) ==
    pc[x] \notin {"tu_init", "hung", "final_unref_free", "register_failed_free",
                  "close", "done"}

\* TU x is referenced: from a registry slot, as the peer of a TU, or by its
\* service thread.
Referenced(x) ==
    \/ \E e \in Slots : extensions[e] = x
    \/ \E u \in TUs : peer[u] = x
    \/ AdapterHolds(x)

\* C36: a TU that is referenced has a reference count of at least 1 and has
\* not been destroyed.
C36_ReferencedIsAlive ==
    \A x \in TUs : Referenced(x) => (ref_count[x] >= 1 /\ ~freed[x])

\* C37: no thread is about to lock, read or write a TU that has been
\* destroyed.
C37_NoUseAfterDestroy ==
    sig = "none" => \A t \in Threads : \A o \in Accessed(t) \ {NULL} : ~freed[o]

\* C38: no update of a reference count is lost: the store that ends a tu_ref
\* leaves the count one above what it is at that moment, and the store that
\* ends a tu_unref one below, whatever other threads did since the load.
C38_AtomicRefCount ==
    [][/\ \A t \in TUs : \A s \in RefSites :
            Leaves(t, s.store)
            => ref_count'[Obj(t, s.obj)] = ref_count[Obj(t, s.obj)] + 1
       /\ \A t \in TUs : \A s \in UnrefSites :
            Leaves(t, s.store)
            => ref_count'[Obj(t, s.obj)] = ref_count[Obj(t, s.obj)] - 1
       /\ Leaves(Main, "sd_ref_store")
            => ref_count'[extensions[idx]] = ref_count[extensions[idx]] + 1]_vars

\* ------------------------------------------------------------ C39
\* x occupies a slot of the registry.
InRegistry(x) == \E e \in Slots : extensions[e] = x

\* C39 (first half): whenever the PBX mutex is not held, every TU that has a
\* peer occupies a slot of the registry and so does its peer.
C39_LinkedAreRegistered ==
    lock = NoThread =>
        \A t \in TUs : peer[t] # NULL => (InRegistry(t) /\ InRegistry(peer[t]))

\* C39 (second half): a TU that is in no slot of the registry is not made
\* RINGING and is not set as the peer of any TU.
C39_OnlyRegisteredLinked ==
    [][\A x \in TUs :
        (\/ state[x] # "TU_RINGING" /\ state'[x] = "TU_RINGING"
         \/ \E u \in TUs : peer[u] # x /\ peer'[u] = x)
            => InRegistry(x)]_vars

\* The first half of C39 at the points where, besides the PBX mutex, neither
\* mutex of the pair is held.
C39_LinkedAreRegisteredUnlocked ==
    lock = NoThread =>
        \A t \in TUs :
            (peer[t] # NULL /\ mutex[t] = NoThread /\ mutex[peer[t]] = NoThread)
                => (InRegistry(t) /\ InRegistry(peer[t]))

\* C39: whenever the PBX mutex and the mutexes of a TU and of its peer are not
\* held, the TU and its peer each occupy a slot of the registry; and a TU that
\* is in no slot is never made RINGING nor set as the peer of any TU.
C39_OnlyRegisteredAreLinked ==
    []C39_LinkedAreRegisteredUnlocked /\ C39_OnlyRegisteredLinked

\* pbx_unregister has returned for a TU that was in a call: its slot is
\* cleared, its tu_hangup has written to the socket of its peer, neither TU has
\* a peer any longer, and the peer is still registered.
C39_Witness ==
    \E a, b \in TUs :
        /\ a # b /\ sig = "none"
        /\ UnregisterReturned(a) /\ ~InRegistry(a) /\ InRegistry(b)
        /\ \E i \in DOMAIN sent[a] : sent[a][i][1] = fd[b]
        /\ peer[a] = NULL /\ peer[b] = NULL
        /\ lock = NoThread /\ mutex[a] = NoThread /\ mutex[b] = NoThread

====
